---- MODULE Spec2Model ----
(***************************************************************************)
(* A model of nifty_bot.py: the start-up check, NiftyLTPBot.get_nifty_ltp, *)
(* NiftyLTPBot.send_ltp_message, NiftyLTPBot.send_startup_message and the  *)
(* polling loop NiftyLTPBot.run.                                           *)
(*                                                                         *)
(* Prices are integers (a price in its smallest unit).  A JSON value is a  *)
(* tagged record: a number, a value that is present but not a number (a    *)
(* string, null, a list), or an absent key.  change_pct is kept as an      *)
(* exact fraction n/d, so that rounding is something a check can see.      *)
(*                                                                         *)
(* The two collaborators are inputs: every call of requests.post yields    *)
(* any response of Responses, every bot.send_message succeeds or raises.   *)
(* An Exception from the loop body's own statements is an input too, taken *)
(* inside the try of lines 153-162; the handler's own log and sleep are    *)
(* taken not to raise.  SIGINT follows CPython 3.8 and later, where        *)
(* CancelledError is not an Exception: raised as KeyboardInterrupt inside  *)
(* the blocking request (before 3.11), or turned by asyncio.run into a     *)
(* cancellation of the main task (3.11 and later); both are possible.      *)
(***************************************************************************)
EXTENDS Integers, Sequences, FiniteSets, TLC

\* ---------------------------------------------------------------- bounds
MaxPrice == 3
MaxFaults == 2

\* ------------------------------------------------------------- constants
HTTP_OK == 200
\* status codes other than 200
OtherCodes == {404, 500}
POLL_SLEEP == 60
BACKOFF_SLEEP == 60

DHAN_OHLC_URL == "/v2/marketfeed/ohlc"
DHAN_LTP_URL == "/v2/marketfeed/ltp"

\* ----------------------------------------------------------------- state
VARIABLES
    config,       \* which of the four environment variables are set
    pc,           \* position of the process
    exitCode,     \* exit status of the process, -1 while it runs
    running,      \* self.running
    cancelPending,\* a cancellation of the main task awaits its next await
    ltpResp,      \* what DHAN_LTP_URL would answer during this fetch
    requested,    \* the URLs get_nifty_ltp posted to in its last call
    resp,         \* the response get_nifty_ltp received in its last call
    data,         \* run's local: the snapshot, or None
    attempt,      \* the delivery begun in this iteration, if any
    sendsInTick,  \* deliveries begun in this iteration
    waited,       \* length of the wait begun last
    faults,       \* consecutive iterations ended by a fault (saturating)
    waitsSinceFetch, \* waits begun since the last fetch began
    startupSends  \* start-up notices whose delivery was begun

vars == <<config, pc, exitCode, running, cancelPending, ltpResp, requested,
          resp, data, attempt, sendsInTick, waited, faults, waitsSinceFetch,
          startupSends>>

\* ---------------------------------------------------------------- values
Num(n) == [k |-> "num", v |-> n]
NonNum == [k |-> "nonnum", v |-> 0]
Absent == [k |-> "absent", v |-> 0]

IsNum(x) == x.k = "num"

\* dict.get(key, 0): the default replaces an absent key only
GetOr0(x) == IF x.k = "absent" THEN Num(0) ELSE x

None == [none |-> TRUE]

Frac(n, d) == [n |-> n, d |-> d]

Prices == 0..MaxPrice
LtpValues == {Absent, NonNum} \cup {Num(n) : n \in Prices}
CloseValues == {Absent, NonNum, Num(-1)} \cup {Num(n) : n \in Prices}

\* ------------------------------------------------------------- responses
\* What requests.post(DHAN_OHLC_URL, ...) produces: a transport outcome, a
\* status code and the shape of the decoded body, level by level.
BaseResponse ==
    [transport |-> "ok", code |-> HTTP_OK, json |-> "dict",
     status |-> "success", data |-> "dict", seg |-> "dict", entry |-> "dict",
     ltp |-> Num(2), ohlc |-> "dict",
     open |-> Num(1), high |-> Num(1), low |-> Num(1), close |-> Num(1)]

\* every way one level of the response can be wrong, the rest being valid
ShapeResponses ==
    {[BaseResponse EXCEPT !.transport = t] : t \in {"timeout", "error"}}
    \cup {[BaseResponse EXCEPT !.code = c] : c \in OtherCodes}
    \cup {[BaseResponse EXCEPT !.json = j] : j \in {"nondict", "invalid"}}
    \cup {[BaseResponse EXCEPT !.status = s] : s \in {"failure", "absent"}}
    \cup {[BaseResponse EXCEPT !.data = d] : d \in {"nondict", "absent"}}
    \cup {[BaseResponse EXCEPT !.seg = g] : g \in {"nondict", "absent"}}
    \cup {[BaseResponse EXCEPT !.entry = e] :
              e \in {"empty", "nondict", "absent"}}

\* a well-shaped response with every last price and previous close, the
\* open/high/low being zero or positive independently, or one of them wrong
EntryResponses ==
    {[BaseResponse EXCEPT !.ltp = l, !.open = o, !.high = h, !.low = w,
                          !.close = c] :
        l \in LtpValues, o \in {Num(0), Num(1)}, h \in {Num(0), Num(1)},
        w \in {Num(0), Num(1)}, c \in CloseValues}
    \cup
    {[BaseResponse EXCEPT !.ltp = l, !.close = c, ![f] = x] :
        l \in {NonNum, Num(2)}, c \in {Num(0), Num(1)},
        f \in {"open", "high", "low"}, x \in {Absent, NonNum}}
    \cup
    {[BaseResponse EXCEPT !.ltp = l, !.ohlc = s] :
        l \in LtpValues, s \in {"nondict", "absent"}}

Responses == ShapeResponses \cup EntryResponses

\* ------------------------------------------------------- get_nifty_ltp
\* ohlc = nifty_data.get('ohlc', {}); ohlc.get(f, 0)
OhlcField(r, f) == IF r.ohlc = "absent" THEN Num(0) ELSE GetOr0(r[f])

\* the guards without the test of the status field
ReachesEntryNoStatus(r) ==
    /\ r.transport = "ok"
    /\ r.code = HTTP_OK
    /\ r.json = "dict"
    /\ r.data = "dict"
    /\ r.seg = "dict"
    /\ r.entry = "dict"
    /\ r.ltp.k # "absent"

\* the guards of lines 66-73: True when control reaches line 74
ReachesEntry(r) ==
    /\ r.transport = "ok"
    /\ r.code = HTTP_OK
    /\ r.json = "dict"
    /\ r.status = "success"
    /\ r.data = "dict"
    /\ r.seg = "dict"
    /\ r.entry = "dict"
    /\ r.ltp.k # "absent"

\* a guard that only excludes zero
ClosePositiveNonZero(close) == close.v # 0

\* if result['close'] > 0
ClosePositive(close) == close.v > 0

\* an exception raised between line 74 and line 94 (all are caught at 105)
RaisesInEntry(r) ==
    \/ r.ohlc = "nondict"
    \/ ~IsNum(OhlcField(r, "close"))
    \/ (ClosePositive(OhlcField(r, "close")) /\ ~IsNum(r.ltp))

\* the percentage truncated to a whole number when it is computed
ChangePctFloorDiv(change, close) == Frac((change * 100) \div close, 1)

\* (result['change'] / result['close']) * 100
ChangePct(change, close) == Frac(change * 100, close)

Result(r) ==
    LET close == OhlcField(r, "close")
        base == [ltp |-> r.ltp,
                 open |-> OhlcField(r, "open"),
                 high |-> OhlcField(r, "high"),
                 low |-> OhlcField(r, "low"),
                 close |-> close]
    IN IF ClosePositive(close)
       THEN LET change == r.ltp.v - close.v
            IN base @@ [change |-> change,
                        change_pct |-> ChangePct(change, close.v)]
       ELSE base @@ [change |-> 0, change_pct |-> Frac(0, 1)]

\* a get_nifty_ltp that hands back the snapshot it produced last when the
\* response gives none
GetNiftyLtpStale(r) ==
    IF ReachesEntry(r) /\ ~RaisesInEntry(r) THEN Result(r) ELSE data

GetNiftyLtp(r) ==
    IF ReachesEntry(r) /\ ~RaisesInEntry(r) THEN Result(r) ELSE None

\* the two answers of the LTP endpoint that matter: a quote without OHLC,
\* or a failure
LtpEndpointResponses ==
    {[BaseResponse EXCEPT !.ohlc = "absent"],
     [BaseResponse EXCEPT !.code = 500]}

\* a get_nifty_ltp that turns to the LTP endpoint when OHLC gives nothing
FetchWithFallback(r, alt) ==
    IF GetNiftyLtp(r) = None
    THEN [data |-> GetNiftyLtp(alt), urls |-> <<DHAN_OHLC_URL, DHAN_LTP_URL>>]
    ELSE [data |-> GetNiftyLtp(r), urls |-> <<DHAN_OHLC_URL>>]

\* get_nifty_ltp as run sees it: the value returned and the URLs posted to
Fetch(r, alt) == [data |-> GetNiftyLtp(r), urls |-> <<DHAN_OHLC_URL>>]

\* ---------------------------------------------------- send_ltp_message
Abs(n) == IF n < 0 THEN -n ELSE n

\* a / b rounded to the nearest integer, ties to even (a >= 0, b > 0)
RoundHalfEven(a, b) ==
    LET q == a \div b
        r == a % b
    IN IF 2 * r < b THEN q
       ELSE IF 2 * r > b THEN q + 1
       ELSE IF q % 2 = 0 THEN q ELSE q + 1

\* format(x, ',.2f') of the fraction n/d (d > 0): sign and hundredths
Fmt2(n, d) == [neg |-> n < 0, h |-> RoundHalfEven(Abs(n) * 100, d)]

NoFmt == [neg |-> FALSE, h |-> 0]

Line(tag, emoji, sign, amt, pct) ==
    [line |-> tag, emoji |-> emoji, sign |-> sign, amt |-> amt, pct |-> pct]

PriceLine(tag, x) == Line(tag, "", "", Fmt2(x.v, 1), NoFmt)

\* a ',.2f' of a non-number, or a '> 0' on one, raises inside the try
RenderRaises(d) ==
    \/ ~IsNum(d.ltp)
    \/ ~IsNum(d.open)
    \/ ~IsNum(d.high)
    \/ ~IsNum(d.low)
    \/ ~IsNum(d.close)

\* a change line that always carries the '+'
ChangeLineAlwaysPlus(d) ==
    LET change_emoji == IF d.change >= 0 THEN "green" ELSE "red"
    IN Line("change", change_emoji, "+", Fmt2(d.change, 1),
            Fmt2(d.change_pct.n, d.change_pct.d))

\* lines 115-116 and 122
ChangeLine(d) ==
    LET change_emoji == IF d.change >= 0 THEN "green" ELSE "red"
        change_sign == IF d.change >= 0 THEN "+" ELSE ""
    IN Line("change", change_emoji, change_sign, Fmt2(d.change, 1),
            Fmt2(d.change_pct.n, d.change_pct.d))

\* a rendering whose test of the low is >= 0
RenderShowsZeroLow(d) ==
    <<Line("header", "", "", NoFmt, NoFmt), PriceLine("ltp", d.ltp)>>
    \o (IF d.change # 0 THEN <<ChangeLine(d)>> ELSE <<>>)
    \o (IF d.open.v > 0 THEN <<PriceLine("open", d.open)>> ELSE <<>>)
    \o (IF d.high.v > 0 THEN <<PriceLine("high", d.high)>> ELSE <<>>)
    \o (IF d.low.v >= 0 THEN <<PriceLine("low", d.low)>> ELSE <<>>)
    \o (IF d.close.v > 0 THEN <<PriceLine("close", d.close)>> ELSE <<>>)
    \o <<Line("time", "", "", NoFmt, NoFmt),
         Line("footer", "", "", NoFmt, NoFmt)>>

\* a rendering that writes the change line whatever the change
RenderAlwaysChange(d) ==
    <<Line("header", "", "", NoFmt, NoFmt), PriceLine("ltp", d.ltp)>>
    \o <<ChangeLine(d)>>
    \o (IF d.open.v > 0 THEN <<PriceLine("open", d.open)>> ELSE <<>>)
    \o (IF d.high.v > 0 THEN <<PriceLine("high", d.high)>> ELSE <<>>)
    \o (IF d.low.v > 0 THEN <<PriceLine("low", d.low)>> ELSE <<>>)
    \o (IF d.close.v > 0 THEN <<PriceLine("close", d.close)>> ELSE <<>>)
    \o <<Line("time", "", "", NoFmt, NoFmt),
         Line("footer", "", "", NoFmt, NoFmt)>>

\* lines 118-134: the message, line by line
Render(d) ==
    <<Line("header", "", "", NoFmt, NoFmt), PriceLine("ltp", d.ltp)>>
    \o (IF d.change # 0 THEN <<ChangeLine(d)>> ELSE <<>>)
    \o (IF d.open.v > 0 THEN <<PriceLine("open", d.open)>> ELSE <<>>)
    \o (IF d.high.v > 0 THEN <<PriceLine("high", d.high)>> ELSE <<>>)
    \o (IF d.low.v > 0 THEN <<PriceLine("low", d.low)>> ELSE <<>>)
    \o (IF d.close.v > 0 THEN <<PriceLine("close", d.close)>> ELSE <<>>)
    \o <<Line("time", "", "", NoFmt, NoFmt),
         Line("footer", "", "", NoFmt, NoFmt)>>

StartupMsg == <<Line("startup", "", "", NoFmt, NoFmt)>>

NoAttempt == [kind |-> "none", text |-> <<>>, result |-> "none"]
Attempt(kind, text) == [kind |-> kind, text |-> text, result |-> "inflight"]

\* ------------------------------------------------------------- start-up
ConfigKeys ==
    {"TELEGRAM_BOT_TOKEN", "TELEGRAM_CHAT_ID", "DHAN_CLIENT_ID",
     "DHAN_ACCESS_TOKEN"}

\* a check that is content with any one value
AnySet(c) == \E k \in ConfigKeys : c[k]

\* all([TELEGRAM_BOT_TOKEN, TELEGRAM_CHAT_ID, DHAN_CLIENT_ID, ...])
AllSet(c) == \A k \in ConfigKeys : c[k]

Init ==
    /\ config \in [ConfigKeys -> BOOLEAN]
    /\ pc = "main"
    /\ exitCode = -1
    /\ running = FALSE
    /\ cancelPending = FALSE
    /\ ltpResp = None
    /\ requested = <<>>
    /\ resp = None
    /\ data = None
    /\ attempt = NoAttempt
    /\ sendsInTick = 0
    /\ waited = 0
    /\ faults = 0
    /\ waitsSinceFetch = 0
    /\ startupSends = 0

\* the __main__ block: the check of the environment, the construction of
\* the bot (which may raise), and run() up to its first await, the send of
\* the start-up notice
Main ==
    /\ pc = "main"
    /\ IF ~AllSet(config)
       THEN /\ pc' = "exited"
            /\ exitCode' = 1
            /\ UNCHANGED <<running, attempt, startupSends>>
       ELSE \E wired \in BOOLEAN :
              IF wired
              THEN /\ running' = TRUE
                   /\ attempt' = Attempt("startup", StartupMsg)
                   /\ startupSends' = startupSends + 1
                   /\ pc' = "startup"
                   /\ UNCHANGED exitCode
              ELSE /\ pc' = "exited"
                   /\ exitCode' = 1
                   /\ UNCHANGED <<running, attempt, startupSends>>
    /\ UNCHANGED <<config, cancelPending, ltpResp, requested, resp, data,
                   sendsInTick, waited, faults, waitsSinceFetch>>

\* a send_startup_message without its try: a failed send leaves run and
\* reaches the except of line 204
SendStartupMessageReturnsFatal ==
    /\ pc = "startup"
    /\ \E ok \in BOOLEAN :
         /\ attempt' = [attempt EXCEPT
                          !.result = IF ok THEN "ok" ELSE "failed"]
         /\ pc' = IF ok THEN "poll" ELSE "exited"
         /\ exitCode' = IF ok THEN exitCode ELSE 1
    /\ UNCHANGED <<config, running, cancelPending, ltpResp, requested, resp,
                   data, sendsInTick, waited, faults, waitsSinceFetch,
                   startupSends>>

\* send_startup_message: bot.send_message resolves, with or without an
\* exception (caught at line 187); run goes on to the loop
SendStartupMessageReturns ==
    /\ pc = "startup"
    /\ \E ok \in BOOLEAN :
         attempt' = [attempt EXCEPT !.result = IF ok THEN "ok" ELSE "failed"]
    /\ pc' = "poll"
    /\ UNCHANGED <<config, exitCode, running, cancelPending, ltpResp,
                   requested, resp, data, sendsInTick, waited, faults>>
    /\ UNCHANGED <<waitsSinceFetch, startupSends>>

\* ------------------------------------------------------------------ run
\* where an await leads: a cancellation requested while the task was in
\* synchronous code is delivered at the task's next suspension
AwaitOr(target) == IF cancelPending THEN "interrupted" ELSE target
ExitOnAwait == IF cancelPending THEN 130 ELSE exitCode

\* while self.running: data = self.get_nifty_ltp() -- the request is posted
BeginFetch ==
    /\ pc = "poll"
    /\ running
    /\ pc' = "fetching"
    /\ requested' = <<>>
    /\ resp' = None
    /\ ltpResp' = None
    /\ attempt' = NoAttempt
    /\ sendsInTick' = 0
    /\ UNCHANGED <<config, exitCode, running, cancelPending, data, waited,
                   faults>>
    /\ waitsSinceFetch' = 0
    /\ UNCHANGED startupSends

\* a get_nifty_ltp without its except clauses for the request: a timeout or
\* a transport error reaches the handler of line 168
GetNiftyLtpReturnsRaises ==
    /\ pc = "fetching"
    /\ resp' \in Responses
    /\ ltpResp' \in LtpEndpointResponses
    /\ data' = Fetch(resp', ltpResp').data
    /\ requested' = Fetch(resp', ltpResp').urls
    /\ IF resp'.transport = "ok"
       THEN /\ pc' = "fetched"
            /\ UNCHANGED <<exitCode, waited, faults, waitsSinceFetch>>
       ELSE /\ pc' = AwaitOr("backoff")
            /\ exitCode' = ExitOnAwait
            /\ waited' = BACKOFF_SLEEP
            /\ faults' = IF faults < MaxFaults THEN faults + 1 ELSE faults
            /\ waitsSinceFetch' = waitsSinceFetch + 1
    /\ UNCHANGED <<config, running, cancelPending, attempt, sendsInTick,
                   startupSends>>

\* get_nifty_ltp returns
GetNiftyLtpReturns ==
    /\ pc = "fetching"
    /\ resp' \in Responses
    /\ ltpResp' \in LtpEndpointResponses
    /\ data' = Fetch(resp', ltpResp').data
    /\ requested' = Fetch(resp', ltpResp').urls
    /\ pc' = "fetched"
    /\ UNCHANGED <<config, exitCode, running, cancelPending, attempt,
                   sendsInTick, waited, faults>>
    /\ UNCHANGED <<waitsSinceFetch, startupSends>>

\* an else branch that sends a "no data" notice
NoDataNotifies ==
    /\ pc = "fetched"
    /\ data = None
    /\ attempt' = [Attempt("nodata", <<Line("nodata", "", "", NoFmt, NoFmt)>>)
                     EXCEPT !.result = IF cancelPending THEN "aborted"
                                       ELSE "inflight"]
    /\ sendsInTick' = sendsInTick + 1
    /\ pc' = AwaitOr("sending")
    /\ exitCode' = ExitOnAwait
    /\ UNCHANGED <<config, running, cancelPending, ltpResp, requested, resp,
                   data, waited, faults>>
    /\ UNCHANGED <<waitsSinceFetch, startupSends>>

\* else: logger.warning(...); await asyncio.sleep(60)
NoData ==
    /\ pc = "fetched"
    /\ data = None
    /\ pc' = AwaitOr("sleeping")
    /\ exitCode' = ExitOnAwait
    /\ waited' = POLL_SLEEP
    /\ UNCHANGED <<config, running, cancelPending, ltpResp, requested, resp,
                   data, attempt, sendsInTick, faults>>
    /\ waitsSinceFetch' = waitsSinceFetch + 1
    /\ UNCHANGED startupSends

\* if data: await self.send_ltp_message(data) -- up to bot.send_message; a
\* rendering that raises is logged at line 144 and run goes on to its sleep
SendLtpMessage ==
    /\ pc = "fetched"
    /\ data # None
    /\ IF RenderRaises(data)
       THEN /\ pc' = AwaitOr("sleeping")
            /\ waited' = POLL_SLEEP
            /\ waitsSinceFetch' = waitsSinceFetch + 1
            /\ UNCHANGED <<attempt, sendsInTick>>
       ELSE /\ attempt' = [Attempt("report", Render(data)) EXCEPT
                             !.result = IF cancelPending THEN "aborted"
                                        ELSE "inflight"]
            /\ sendsInTick' = sendsInTick + 1
            /\ pc' = AwaitOr("sending")
            /\ UNCHANGED <<waited, waitsSinceFetch>>
    /\ exitCode' = ExitOnAwait
    /\ UNCHANGED <<config, running, cancelPending, ltpResp, requested, resp,
                   data, faults, startupSends>>

\* a send that is tried once more when it fails
SendLtpMessageReturnsRetry ==
    /\ pc = "sending"
    /\ \E ok \in BOOLEAN :
         IF ok \/ sendsInTick >= 2
         THEN /\ attempt' = [attempt EXCEPT
                               !.result = IF ok THEN "ok" ELSE "failed"]
              /\ pc' = "sleeping"
              /\ waited' = POLL_SLEEP
              /\ waitsSinceFetch' = waitsSinceFetch + 1
              /\ UNCHANGED sendsInTick
         ELSE /\ sendsInTick' = sendsInTick + 1
              /\ UNCHANGED <<attempt, pc, waited, waitsSinceFetch>>
    /\ UNCHANGED <<config, exitCode, running, cancelPending, ltpResp,
                   requested, resp, data, faults, startupSends>>

\* a failed send that goes straight back to the loop head
SendLtpMessageReturnsSkipsWait ==
    /\ pc = "sending"
    /\ \E ok \in BOOLEAN :
         /\ attempt' = [attempt EXCEPT
                          !.result = IF ok THEN "ok" ELSE "failed"]
         /\ IF ok
            THEN /\ pc' = "sleeping"
                 /\ waited' = POLL_SLEEP
                 /\ waitsSinceFetch' = waitsSinceFetch + 1
            ELSE /\ pc' = "poll"
                 /\ UNCHANGED <<waited, waitsSinceFetch>>
    /\ UNCHANGED <<config, exitCode, running, cancelPending, ltpResp,
                   requested, resp, data, sendsInTick, faults, startupSends>>

\* bot.send_message resolves, with or without an exception (caught at line
\* 143); send_ltp_message returns and run goes on to its sleep
SendLtpMessageReturns ==
    /\ pc = "sending"
    /\ \E ok \in BOOLEAN :
         attempt' = [attempt EXCEPT !.result = IF ok THEN "ok" ELSE "failed"]
    /\ pc' = "sleeping"
    /\ waited' = POLL_SLEEP
    /\ UNCHANGED <<config, exitCode, running, cancelPending, ltpResp,
                   requested, resp, data, sendsInTick, faults>>
    /\ waitsSinceFetch' = waitsSinceFetch + 1
    /\ UNCHANGED startupSends

\* await asyncio.sleep(60) of line 162 returns: the iteration is over
SleepReturns ==
    /\ pc = "sleeping"
    /\ pc' = "poll"
    /\ faults' = 0
    /\ UNCHANGED <<config, exitCode, running, cancelPending, ltpResp,
                   requested, resp, data, attempt, sendsInTick, waited>>
    /\ UNCHANGED <<waitsSinceFetch, startupSends>>

\* a handler whose wait grows with every consecutive fault
LoopBodyFaultEscalates ==
    /\ pc = "fetched"
    /\ faults' = IF faults < MaxFaults THEN faults + 1 ELSE faults
    /\ waited' = BACKOFF_SLEEP * (faults + 1)
    /\ pc' = AwaitOr("backoff")
    /\ exitCode' = ExitOnAwait
    /\ UNCHANGED <<config, running, cancelPending, ltpResp, requested, resp,
                   data, attempt, sendsInTick>>
    /\ waitsSinceFetch' = waitsSinceFetch + 1
    /\ UNCHANGED startupSends

\* a handler that lets the fault out of run, to the except of line 204
LoopBodyFaultPropagates ==
    /\ pc = "fetched"
    /\ faults' = IF faults < MaxFaults THEN faults + 1 ELSE faults
    /\ pc' = "exited"
    /\ exitCode' = 1
    /\ UNCHANGED <<config, running, cancelPending, ltpResp, requested, resp,
                   data, attempt, sendsInTick, waited, waitsSinceFetch,
                   startupSends>>

\* an Exception raised by the loop body's own steps (not inside
\* get_nifty_ltp or send_ltp_message, which catch theirs): except Exception
\* at line 168 logs it and sleeps
LoopBodyFault ==
    /\ pc = "fetched"
    /\ faults' = IF faults < MaxFaults THEN faults + 1 ELSE faults
    /\ waited' = BACKOFF_SLEEP
    /\ pc' = AwaitOr("backoff")
    /\ exitCode' = ExitOnAwait
    /\ UNCHANGED <<config, running, cancelPending, ltpResp, requested, resp,
                   data, attempt, sendsInTick>>
    /\ waitsSinceFetch' = waitsSinceFetch + 1
    /\ UNCHANGED startupSends

\* await asyncio.sleep(60) of line 170 returns
BackoffReturns ==
    /\ pc = "backoff"
    /\ pc' = "poll"
    /\ UNCHANGED <<config, exitCode, running, cancelPending, ltpResp,
                   requested, resp, data, attempt, sendsInTick, waited,
                   faults>>
    /\ UNCHANGED <<waitsSinceFetch, startupSends>>

\* ------------------------------------------------------------- SIGINT
\* a stop handler that, like the fault handler, sleeps instead of breaking
KeyboardInterruptInFetchSleeps ==
    /\ pc = "fetching"
    /\ running' = FALSE
    /\ pc' = "backoff"
    /\ waited' = BACKOFF_SLEEP
    /\ waitsSinceFetch' = waitsSinceFetch + 1
    /\ UNCHANGED <<config, exitCode, cancelPending, ltpResp, requested, resp,
                   data, attempt, sendsInTick, faults, startupSends>>

\* KeyboardInterrupt raised inside the blocking requests.post: it is not an
\* Exception, so it leaves get_nifty_ltp and reaches line 164
KeyboardInterruptInFetch ==
    /\ pc = "fetching"
    /\ running' = FALSE
    /\ pc' = "stopped"
    /\ exitCode' = 0
    /\ UNCHANGED <<config, cancelPending, ltpResp, requested, resp, data,
                   attempt, sendsInTick, waited, faults>>
    /\ UNCHANGED <<waitsSinceFetch, startupSends>>

\* asyncio.run's own SIGINT handler (Python 3.11 and later) cancels the main
\* task instead; the task is in synchronous code, so the cancellation waits
CancelRequestedInFetch ==
    /\ pc = "fetching"
    /\ ~cancelPending
    /\ cancelPending' = TRUE
    /\ UNCHANGED <<config, pc, exitCode, running, ltpResp, requested, resp,
                   data, attempt, sendsInTick, waited, faults>>
    /\ UNCHANGED <<waitsSinceFetch, startupSends>>

\* SIGINT while the task is suspended in an await: CancelledError is thrown
\* into it; neither except Exception nor except KeyboardInterrupt catches
\* it, and asyncio.run ends with KeyboardInterrupt
CancelledAtAwait ==
    /\ pc \in {"startup", "sending", "sleeping", "backoff"}
    /\ pc' = "interrupted"
    /\ exitCode' = 130
    /\ attempt' = IF attempt.result = "inflight"
                  THEN [attempt EXCEPT !.result = "aborted"]
                  ELSE attempt
    /\ UNCHANGED <<config, running, cancelPending, ltpResp, requested, resp,
                   data, sendsInTick, waited, faults>>
    /\ UNCHANGED <<waitsSinceFetch, startupSends>>

Next ==
    \/ Main
    \/ SendStartupMessageReturns
    \/ BeginFetch
    \/ GetNiftyLtpReturns
    \/ NoData
    \/ SendLtpMessage
    \/ SendLtpMessageReturns
    \/ SleepReturns
    \/ LoopBodyFault
    \/ BackoffReturns
    \/ KeyboardInterruptInFetch
    \/ CancelRequestedInFetch
    \/ CancelledAtAwait

Spec == Init /\ [][Next]_vars

\* the steps the event loop itself takes: every await resolves (the request
\* has timeout=10, the sleeps are finite) and the coroutine then runs on
ProgramStep ==
    \/ Main
    \/ SendStartupMessageReturns
    \/ BeginFetch
    \/ GetNiftyLtpReturns
    \/ NoData
    \/ SendLtpMessage
    \/ SendLtpMessageReturns
    \/ SleepReturns
    \/ BackoffReturns

LiveSpec == Init /\ [][Next]_vars /\ WF_vars(ProgramStep)

TypeOK ==
    /\ pc \in {"main", "exited", "startup", "poll", "fetching", "fetched",
               "sending", "sleeping", "backoff", "stopped", "interrupted"}
    /\ exitCode \in {-1, 0, 1, 130}
    /\ sendsInTick \in 0..1
    /\ faults \in 0..MaxFaults
    /\ waitsSinceFetch \in 0..1
    /\ startupSends \in 0..1

\* =============================================================== claims
\* the response get_nifty_ltp has just judged is the one in resp
Fetched == resp # None

\* the four conditions of a usable response: HTTP 200, status 'success', an
\* entry for the instrument under data.IDX_I, a last_price field in it
QuoteConditions(r) ==
    /\ r.transport = "ok" /\ r.code = 200 /\ r.json = "dict"
    /\ r.status = "success"
    /\ r.data = "dict" /\ r.seg = "dict" /\ r.entry = "dict"
    /\ r.ltp # Absent

\* the previous close get_nifty_ltp reads from a response: 0 when absent
PrevClose(r) ==
    IF r.ohlc = "absent" \/ r.close = Absent THEN Num(0) ELSE r.close

\* C1: every quote get_nifty_ltp returns with previous close > 0 has
\* change = last price - previous close and change_pct = change / previous
\* close * 100 exactly, as a fraction, with nothing rounded away.
C1_ChangeExact ==
    (Fetched /\ data # None /\ data.close.v > 0) =>
        /\ data.ltp = resp.ltp /\ data.close = resp.close
        /\ data.change = resp.ltp.v - resp.close.v
        /\ data.change_pct.d > 0
        /\ data.change_pct.n * resp.close.v
             = data.change * 100 * data.change_pct.d

\* a quote whose percentage is not a whole number
C1_Witness ==
    /\ Fetched /\ data # None /\ data.close.v > 0
    /\ (data.change * 100) % data.close.v # 0

\* C2: every quote get_nifty_ltp returns whose previous close is not > 0
\* (zero, absent and defaulted to 0, negative) has change = 0 and
\* change_pct = 0, and no returned change_pct has a zero denominator.
C2_NoCloseNoChange ==
    (Fetched /\ data # None) =>
        /\ data.close = PrevClose(resp)
        /\ data.change_pct.d # 0
        /\ (~(PrevClose(resp).v > 0) =>
               data.change = 0 /\ data.change_pct = Frac(0, 1))

\* a quote with a negative previous close and a positive last price
C2_Witness ==
    /\ Fetched /\ data # None
    /\ resp.close = Num(-1) /\ IsNum(resp.ltp) /\ resp.ltp.v > 0

C4_QuoteIffFourConditions ==
    Fetched => (data # None <=> QuoteConditions(resp))

\* what the entry must be beyond having a last_price: an ohlc that, when
\* present, is a mapping; a close that, when present, is a number; and a
\* numeric last price when that close is > 0
EntryComputable(r) ==
    /\ r.ohlc # "nondict"
    /\ PrevClose(r) # NonNum
    /\ (PrevClose(r).v > 0 => r.ltp # NonNum)

\* C4 amended: None is returned whenever one of the four conditions fails
\* (non-200, non-success, no entry, no last_price, timeout, transport
\* error); a quote is returned exactly when the four hold and the entry can
\* be computed on.
C4_QuoteIffComputable ==
    Fetched =>
        (data # None <=> (QuoteConditions(resp) /\ EntryComputable(resp)))

\* the four conditions hold and yet None is returned
C4_Witness ==
    Fetched /\ QuoteConditions(resp) /\ data = None

\* a body of the wrong shape, or a last price or previous close that is
\* present but not a number
Malformed(r) ==
    /\ r.transport = "ok" /\ r.code = 200
    /\ \/ r.json # "dict"
       \/ r.data = "nondict" \/ r.seg = "nondict" \/ r.entry = "nondict"
       \/ r.ohlc = "nondict"
       \/ r.ltp = NonNum
       \/ (r.ohlc = "dict" /\ r.close = NonNum)

\* C5: for every malformed response get_nifty_ltp returns None, and it
\* never returns a snapshot whose price is not a number; nothing it raises
\* ends the process.
C5_MalformedIsUnavailable ==
    /\ (Fetched /\ Malformed(resp)) => data = None
    /\ data # None => IsNum(data.ltp)
    /\ Fetched => exitCode \in {-1, 0, 130}

\* C6: with one of the four configuration values absent the process exits
\* with a non-zero status before the loop: the bot is never constructed,
\* no start-up notice, no fetch and no delivery happens.
C6_MissingConfigExits ==
    (\E k \in ConfigKeys : ~config[k]) =>
        /\ pc \in {"main", "exited"}
        /\ (pc = "exited" => exitCode # 0 /\ exitCode # -1)
        /\ ~running
        /\ attempt = NoAttempt /\ sendsInTick = 0
        /\ requested = <<>> /\ resp = None /\ data = None
        /\ waited = 0

\* exactly one value absent, and the process has exited with status 1
C6_Witness ==
    /\ Cardinality({k \in ConfigKeys : ~config[k]}) = 1
    /\ pc = "exited" /\ exitCode = 1

\* C7 as stated: an iteration whose fetch returned None delivers a "no
\* data" message before its wait.
C7_NoDataIsNotified ==
    (Fetched /\ data = None /\ pc = "sleeping") =>
        (sendsInTick = 1 /\ attempt.kind = "nodata")

\* C7 amended: an iteration whose fetch returned None renders and delivers
\* nothing; it goes to its fixed-interval wait with no delivery begun.
C7_NoDataIsSilent ==
    (Fetched /\ data = None) =>
        /\ attempt = NoAttempt /\ sendsInTick = 0
        /\ pc \in {"fetched", "sleeping", "backoff", "poll", "interrupted"}
        /\ (pc = "sleeping" => waited = 60)

\* the wait of an iteration whose fetch returned None
C7_Witness ==
    Fetched /\ data = None /\ pc = "sleeping" /\ faults = 0

\* the line of a message with a given tag, NoLine when there is none
NoLine == Line("none", "", "", NoFmt, NoFmt)
LineOf(text, tag) ==
    IF \E i \in 1..Len(text) : text[i].line = tag
    THEN text[CHOOSE i \in 1..Len(text) : text[i].line = tag]
    ELSE NoLine

\* C8: a price report is begun only in an iteration whose own fetch
\* returned a quote, and it carries that response's last price, previous
\* close and the change between them.
C8_ReportIsThisTicksQuote ==
    attempt.kind = "report" =>
        /\ Fetched /\ QuoteConditions(resp) /\ data # None
        /\ IsNum(resp.ltp)
        /\ LineOf(attempt.text, "ltp").amt
             = [neg |-> FALSE, h |-> resp.ltp.v * 100]
        /\ (PrevClose(resp).v > 0 =>
              /\ LineOf(attempt.text, "close").amt.h = resp.close.v * 100
              /\ (resp.ltp # resp.close =>
                    LineOf(attempt.text, "change").amt.h
                      = Abs(resp.ltp.v - resp.close.v) * 100))
        /\ (~(PrevClose(resp).v > 0) =>
              /\ LineOf(attempt.text, "close") = NoLine
              /\ LineOf(attempt.text, "change") = NoLine)

\* a report with a change line has been delivered
C8_Witness ==
    attempt.kind = "report" /\ attempt.result = "ok" /\ data.change # 0

\* C9: at most one delivery is begun per iteration, exactly one for a
\* rendered message; a failed delivery is not tried again: the iteration
\* goes to its fixed-interval wait and the loop to its next iteration.
C9_OneAttemptPerTick ==
    /\ sendsInTick <= 1
    /\ (attempt.kind = "report" <=> sendsInTick = 1)
    /\ (attempt.kind = "report" /\ attempt.result = "failed") =>
          /\ pc \in {"sleeping", "poll", "interrupted"}
          /\ waited = 60

\* a delivery failed and the loop is back at its head
C9_Witness ==
    attempt.kind = "report" /\ attempt.result = "failed" /\ pc = "poll"

\* C10: a fault raised in an iteration never ends the loop: the handler's
\* wait is 60, the same as the iteration's own, however many faults came
\* before, and from it the loop goes back to polling.
C10_BackoffIsFixed ==
    /\ [](pc = "backoff" => waited = 60 /\ waited = POLL_SLEEP /\ running
                             /\ exitCode = -1)
    /\ [](faults > 0 => pc # "exited")
    /\ [][pc = "backoff" => pc' \in {"backoff", "poll", "interrupted"}]_vars
    /\ [][pc = "fetched" => pc' # "exited"]_vars

\* back at the loop head after MaxFaults consecutive faults
C10_Witness ==
    pc = "poll" /\ faults = MaxFaults /\ running /\ exitCode = -1

\* C11: a stop signal takes effect between iterations only: a delivery or
\* a fetch that is in flight when it arrives is not aborted, it resolves
\* first, and the loop is left only after that.
C11_StopOnlyBetweenIterations ==
    /\ ~(attempt.kind = "report" /\ attempt.result = "aborted")
    /\ (pc = "stopped" => Fetched)

\* C12: between two consecutive fetches exactly one wait is begun, of 60,
\* however the earlier iteration ended (the first fetch has none before
\* it); no wait begins while a delivery is unresolved, and while one is
\* unresolved nothing else of the loop runs.
C12_OneWaitBetweenFetches ==
    /\ [][(pc = "poll" /\ pc' = "fetching") =>
            IF Fetched THEN waitsSinceFetch = 1 /\ waited = 60
                       ELSE waitsSinceFetch = 0]_vars
    /\ [](waitsSinceFetch <= 1)
    /\ [](pc \in {"sleeping", "backoff", "poll", "fetching", "fetched"} =>
            attempt.result # "inflight")
    /\ [](attempt.result = "inflight" =>
            /\ pc \in {"startup", "sending"}
            /\ sendsInTick = (IF attempt.kind = "report" THEN 1 ELSE 0))

\* the loop is about to fetch again after an iteration that faulted
C12_Witness ==
    /\ pc = "poll" /\ Fetched /\ faults > 0
    /\ waitsSinceFetch = 1 /\ waited = 60

\* a stop signal has been raised
StopRaised == cancelPending \/ pc \in {"stopped", "interrupted"}

\* C13: the loop has no end of its own: in every run in which the loop is
\* entered and no stop signal is raised, a fetch completes again and again,
\* whatever the iterations before it were (quote, no data, failed delivery,
\* fault).
C13_PollsForever ==
    []<>(pc = "fetched" \/ StopRaised \/ (pc = "exited" /\ ~running))

\* a fetch completed after an iteration that faulted
C13_Witness ==
    pc = "fetched" /\ faults > 0 /\ waitsSinceFetch = 0 /\ ~StopRaised

\* C14: one start-up notice is sent, before any fetch; when its delivery
\* resolves, with success or failure, the loop is entered; no start-up
\* notice is sent afterwards.
C14_OneStartupNotice ==
    /\ [](startupSends <= 1)
    /\ [](pc = "startup" =>
            /\ startupSends = 1 /\ attempt = Attempt("startup", StartupMsg)
            /\ ~Fetched /\ requested = <<>> /\ data = None
            /\ waitsSinceFetch = 0)
    /\ [](pc \in {"poll", "fetching", "fetched", "sending", "sleeping",
                  "backoff", "stopped"} => startupSends = 1)
    /\ [](requested # <<>> => startupSends = 1)
    /\ [][pc = "startup" => pc' \in {"startup", "poll", "interrupted"}]_vars
    /\ [][pc # "main" => startupSends' = startupSends]_vars

\* the loop entered after a start-up notice that failed
C14_Witness ==
    /\ pc = "poll" /\ startupSends = 1
    /\ attempt.kind = "startup" /\ attempt.result = "failed"

\* the message has a line with this tag
HasLine(text, tag) == \E i \in 1..Len(text) : text[i].line = tag

\* the order the lines of a report are to come in
LineOrder ==
    <<"header", "ltp", "change", "open", "high", "low", "close", "time",
      "footer">>
Rank(tag) == CHOOSE i \in 1..Len(LineOrder) : LineOrder[i] = tag

\* a report has been rendered from the snapshot in data
Reported == attempt.kind = "report"

\* C15: a rendered report always has the price line and the timestamp
\* line; it has the open, high, low and previous-close line exactly when
\* that value of the snapshot is > 0, each showing that value; and its lines
\* come in the order price, change, open, high, low, previous close,
\* timestamp.
C15_LinesAndOrder ==
    Reported =>
        /\ HasLine(attempt.text, "ltp") /\ HasLine(attempt.text, "time")
        /\ \A f \in {"open", "high", "low", "close"} :
             /\ HasLine(attempt.text, f) <=> data[f].v > 0
             /\ (data[f].v > 0 =>
                   LineOf(attempt.text, f).amt
                     = [neg |-> FALSE, h |-> data[f].v * 100])
        /\ \A i, j \in 1..Len(attempt.text) :
             i < j => Rank(attempt.text[i].line) < Rank(attempt.text[j].line)
        /\ \A i \in 1..Len(attempt.text) :
             \E k \in 1..Len(LineOrder) : LineOrder[k] = attempt.text[i].line

\* a report with an open and a previous close but a zero high and low
C15_Witness ==
    /\ Reported
    /\ data.open.v > 0 /\ data.high.v = 0 /\ data.low.v = 0
    /\ data.close.v > 0 /\ data.change # 0

\* the change of the response just fetched, as get_nifty_ltp defines it
Delta == IF PrevClose(resp).v > 0 THEN resp.ltp.v - resp.close.v ELSE 0

\* C16: a rendered report has the change line exactly when the change is
\* not 0.  A positive change shows the positive indicator and a '+' before
\* both the amount and the percentage; a negative one the negative
\* indicator, no '+', and the minus of the numbers themselves.  The sign
\* shown with the percentage is the sign of change_pct, and the percentage
\* shown is change_pct rounded to two decimals.
C16_ChangeLineAndSign ==
    Reported =>
        LET L == LineOf(attempt.text, "change")
            pctPos == data.change_pct.n * data.change_pct.d > 0
            pctNeg == data.change_pct.n * data.change_pct.d < 0
        IN /\ data.change = Delta
           /\ HasLine(attempt.text, "change") <=> Delta # 0
           /\ (Delta > 0 =>
                 /\ L.emoji = "green" /\ L.sign = "+"
                 /\ ~L.amt.neg /\ ~L.pct.neg)
           /\ (Delta < 0 =>
                 /\ L.emoji = "red" /\ L.sign = ""
                 /\ L.amt.neg /\ L.pct.neg)
           /\ (Delta # 0 =>
                 /\ (L.sign = "+" <=> pctPos)
                 /\ (L.pct.neg <=> pctNeg)
                 /\ L.amt.h = Abs(Delta) * 100
                 /\ L.pct.h = RoundHalfEven(Abs(Delta) * 10000, resp.close.v))

\* a report with a negative change, its delivery still in flight
C16_Witness ==
    Reported /\ Delta < 0 /\ attempt.result = "inflight"

\* C17: when the quote fetched in an iteration has previous close 0 (given
\* as 0 or absent), the report rendered in that iteration has no change
\* line and no previous-close line, and has the price line, showing the
\* last price fetched, and the timestamp line.
C17_ZeroCloseReport ==
    (Reported /\ PrevClose(resp) = Num(0)) =>
        /\ ~HasLine(attempt.text, "change")
        /\ ~HasLine(attempt.text, "close")
        /\ HasLine(attempt.text, "ltp")
        /\ LineOf(attempt.text, "ltp").amt.h = resp.ltp.v * 100
        /\ HasLine(attempt.text, "time")

\* such a report, delivered, for a positive last price
C17_Witness ==
    /\ Reported /\ attempt.result = "ok"
    /\ PrevClose(resp) = Num(0) /\ resp.ltp.v > 0

\* C18: once the stop handler has cleared the running flag the loop is
\* over: the process is at its end with status 0, and no step follows, so
\* no fetch, no delivery and no wait is begun afterwards.
C18_StoppedIsFinal ==
    /\ []((~running /\ pc \notin {"main", "exited"}) =>
            (pc = "stopped" /\ exitCode = 0 /\ attempt.result # "inflight"))
    /\ [](pc = "stopped" => ~running)
    /\ [][(~running /\ pc # "main") => UNCHANGED vars]_vars

\* the stop handler has run, in an iteration after the first
C18_Witness ==
    pc = "stopped" /\ ~running /\ data # None /\ waited = 60

\* C19: an exception of the request (timeout, transport error, a body that
\* cannot be used) ends inside get_nifty_ltp, which returns None, and an
\* exception of the send ends inside send_ltp_message, from where the
\* iteration goes to its own wait of line 162; the fault handler's wait is
\* entered only from the loop body's own statements after the fetch.
C19_CollaboratorFaultsAbsorbed ==
    /\ [][(pc = "fetching" /\ pc' \notin {"fetching", "stopped"}) =>
            /\ pc' = "fetched"
            /\ faults' = faults
            /\ (resp'.transport # "ok" => data' = None)]_vars
    /\ [][(pc = "sending" /\ pc' \notin {"sending", "interrupted"}) =>
            /\ pc' = "sleeping" /\ waited' = 60
            /\ faults' = faults
            /\ attempt'.result \in {"ok", "failed"}]_vars
    /\ [][(pc # "backoff" /\ pc' = "backoff") => pc = "fetched"]_vars

\* an iteration whose request timed out is in its own wait
C19_Witness ==
    /\ pc = "sleeping" /\ Fetched /\ resp.transport = "timeout"
    /\ data = None /\ waitsSinceFetch = 1

====
